---- MODULE Spec2Model ----
(***************************************************************************)
(* A model of anycache: a decorator that memoises the results of plain     *)
(* functions, generators, coroutines and async generators in files of a    *)
(* cache directory (src/anycache/main.py, src/anycache/serializers.py).    *)
(*                                                                         *)
(* Python text (str) is a sequence of one-character strings, file content  *)
(* (bytes) is a sequence of byte tokens, and a Python object is a record   *)
(* [ty, v]: its type name and the sequence of its parts.                   *)
(***************************************************************************)
EXTENDS Integers, Sequences, FiniteSets, TLC

VARIABLES
    wrapper,    \* the decoration: how cache() was used and the CacheWrapper it built
    fs,         \* the cache directory: key -> [exists, data]
    calls,      \* the invocations of the wrapped callable, by slot
    tampered,   \* history: keys whose entry file was overwritten from outside
    kcall,      \* the latest make_key call: its arguments and the key it returned
    kfirst,     \* the key the first make_key call returned
    tasks,      \* the threads that call read() and write(), each at a step
    log         \* history: the read() and write() calls that have returned

vars == <<wrapper, fs, calls, tampered, kcall, kfirst, tasks, log>>

\* ------------------------------------------------------------------ bounds

MaxCalls == 2       \* invocations of the wrapped callable in one run
MaxItems == 2       \* items one run of an underlying generator yields at most
MaxArgs == 2        \* positional arguments of a make_key call
DecoCalls == 1      \* invocations that follow a use of the decorator

\* ------------------------------------------------------------ Python text

RECURSIVE Join(_, _)
\* sep.join(parts)
Join(sep, parts) ==
    IF parts = <<>> THEN <<>>
    ELSE IF Len(parts) = 1 THEN parts[1]
    ELSE parts[1] \o sep \o Join(sep, Tail(parts))

\* The argument values of the model, and str(arg) of each.  "i3" is the int 3,
\* "s3" the str '3', "s3_4" the str '3_4', "sa=3" the str 'a=3', "o1" and "o2"
\* two receiver objects of one class.
ArgValues == {"i3", "i4", "s3", "s3_4", "sa=3", "o1", "o2"}

str(arg) ==
    CASE arg = "i3" -> <<"3">>
      [] arg = "i4" -> <<"4">>
      [] arg = "s3" -> <<"3">>
      [] arg = "s3_4" -> <<"3", "_", "4">>
      [] arg = "sa=3" -> <<"a", "=", "3">>
      [] arg = "o1" -> <<"o", "1">>
      [] arg = "o2" -> <<"o", "2">>

\* The order of characters (code points) that the comparison of str uses.
Alphabet == <<"1", "2", "3", "4", "=", "_", "a", "b", "c", "f", "n", "o">>

ord(c) == CHOOSE i \in 1..Len(Alphabet) : Alphabet[i] = c

RECURSIVE StrLess(_, _)
\* s < t for str: lexicographic by code point
StrLess(s, t) ==
    IF t = <<>> THEN FALSE
    ELSE IF s = <<>> THEN TRUE
    ELSE IF s[1] = t[1] THEN StrLess(Tail(s), Tail(t))
    ELSE ord(s[1]) < ord(t[1])

RECURSIVE InsertItem(_, _)
\* item = <<k, v>> put before the first item of the sorted list whose key is greater
InsertItem(item, sortedItems) ==
    IF sortedItems = <<>> THEN <<item>>
    ELSE IF StrLess(item[1], sortedItems[1][1]) THEN <<item>> \o sortedItems
    ELSE <<sortedItems[1]>> \o InsertItem(item, Tail(sortedItems))

RECURSIVE sorted(_)
\* sorted(kwargs.items()): the keys of a dict are distinct, so the (k, v) tuples
\* are ordered by k alone and no two values are ever compared.
sorted(items) ==
    IF items = <<>> THEN <<>>
    ELSE InsertItem(items[1], sorted(Tail(items)))

\* hashlib.sha256(string.encode("utf-8")).hexdigest(), taken as collision-free:
\* the digest is a text that determines the hashed text.
sha256_hexdigest(string) == <<"#">> \o string

\* The text that is hashed: the parts that are not empty, joined by ":".
\* args are the positional arguments that count, items the keyword items in
\* the order they are rendered.
key_string(func_name, args, items) ==
    Join(<<":">>,
         SelectSeq(<< func_name,
                      Join(<<"_">>, [i \in 1..Len(args) |-> str(args[i])]),
                      Join(<<"_">>, [i \in 1..Len(items) |->
                                        items[i][1] \o <<"=">> \o str(items[i][2])]) >>,
                   LAMBDA kp : kp # <<>>))

\* args[1:] if self.is_method else args
key_args(is_method, args) ==
    IF is_method THEN (IF args = <<>> THEN <<>> ELSE Tail(args)) ELSE args

\* The same key derivation with the keyword arguments left in insertion order.
make_key_unsorted(is_method, func_name, args, kwargs) ==
    sha256_hexdigest(key_string(func_name, key_args(is_method, args), kwargs))

\* CacheWrapper.make_key; is_method is self.is_method, kwargs the items of the
\* dict in insertion order.
make_key(is_method, func_name, args, kwargs) ==
    sha256_hexdigest(key_string(func_name, key_args(is_method, args), sorted(kwargs)))

\* -------------------------------------------------------- Python objects

None == [ty |-> "NoneType", v |-> <<>>]
IntObj(n) == [ty |-> "int", v |-> <<n>>]
ListObj(items) == [ty |-> "list", v |-> items]
\* A lambda: a value that pickle cannot encode.
Lambda == [ty |-> "function", v |-> <<>>]

\* What a call of an operation that may raise gives: the value, or the exception.
Ok(val) == [ok |-> TRUE, val |-> val]
Raise(val) == [ok |-> FALSE, val |-> val]

\* ------------------------------------------------------------ serializers

PickleTypes == {"NoneType", "int", "list"}

\* pickle.dumps(obj): protocol header, the object, STOP; raises for a lambda.
pickle_dumps(obj) ==
    IF obj.ty \in PickleTypes
    THEN Ok(<<"PROTO", obj.ty>> \o obj.v \o <<"STOP">>)
    ELSE Raise(<<>>)

\* pickle.loads(b): raises unless b is a complete pickle of a known type.
pickle_loads(b) ==
    IF /\ Len(b) >= 3
       /\ b[1] = "PROTO"
       /\ b[Len(b)] = "STOP"
       /\ b[2] \in PickleTypes
       /\ (b[2] = "NoneType" => Len(b) = 3)
       /\ (b[2] = "int" => Len(b) = 4)
    THEN Ok([ty |-> b[2], v |-> SubSeq(b, 3, Len(b) - 1)])
    ELSE Raise(<<>>)

\* base64.encodebytes(b): every byte in the base64 alphabet, then a newline.
base64_encodebytes(b) ==
    [i \in 1..Len(b) |-> <<"b64", b[i]>>] \o << <<"nl", "">> >>

\* base64.decodebytes that takes the newline for a byte of the data
base64_decodebytes_newline(blob) ==
    IF \E i \in 1..Len(blob) : blob[i][1] = "cut"
    THEN Raise(<<>>)
    ELSE Ok([i \in 1..Len(blob) |-> blob[i][2]])

\* base64.decodebytes(blob): characters outside the alphabet are discarded; an
\* incomplete quantum ("cut") raises binascii.Error.
base64_decodebytes(blob) ==
    IF \E i \in 1..Len(blob) : blob[i][1] = "cut"
    THEN Raise(<<>>)
    ELSE LET kept == SelectSeq(blob, LAMBDA t : t[1] = "b64")
         IN  Ok([i \in 1..Len(kept) |-> kept[i][2]])

\* PickleSerializer.dumps
PickleSerializer_dumps(obj) ==
    LET blob == pickle_dumps(obj)
    IN  IF blob.ok THEN Ok(base64_encodebytes(blob.val)) ELSE blob

\* PickleSerializer.loads
PickleSerializer_loads(blob) ==
    LET b == base64_decodebytes(blob)
    IN  IF b.ok THEN pickle_loads(b.val) ELSE Raise(<<>>)

\* Another implementation of the Serializer protocol, as a user may pass one:
\* it writes the object as plain text and encodes any object.
TextSerializer_dumps(obj) ==
    Ok([i \in 1..(Len(obj.v) + 1) |->
            IF i = 1 THEN <<"txt", obj.ty>> ELSE <<"txt", obj.v[i - 1]>>])

TextSerializer_loads(blob) ==
    IF /\ Len(blob) >= 1
       /\ \A i \in 1..Len(blob) : blob[i][1] = "txt"
    THEN Ok([ty |-> blob[1][2],
             v |-> [i \in 1..(Len(blob) - 1) |-> blob[i + 1][2]]])
    ELSE Raise(<<>>)

Serializers == {"PickleSerializer", "TextSerializer"}

\* self.serializer.dumps(content)
dumps(serializer, obj) ==
    IF serializer = "PickleSerializer" THEN PickleSerializer_dumps(obj)
    ELSE TextSerializer_dumps(obj)

\* self.serializer.loads(f.read())
loads(serializer, blob) ==
    IF serializer = "PickleSerializer" THEN PickleSerializer_loads(blob)
    ELSE TextSerializer_loads(blob)

\* ------------------------------------------------------- the cache files

FuncName == <<"f", "n">>

\* The (args, kwargs) the wrapped callable is called with.  Its first
\* positional argument is the receiver when it is a method.
ArgChoices == {
    [args |-> <<"o1", "i3">>, kwargs |-> <<>>],
    [args |-> <<"o2", "i3">>, kwargs |-> <<>>],
    [args |-> <<"o1">>, kwargs |-> << <<<<"a">>, "i3">> >>] }

Keys == { make_key(m, FuncName, a.args, a.kwargs) : m \in BOOLEAN, a \in ArgChoices }

\* The key of the entry of a call with arguments a through the wrapper.
TaskKey(a) == make_key(wrapper.is_method, FuncName, a.args, a.kwargs)

NoFile == [exists |-> FALSE, data |-> <<>>]
File(data) == [exists |-> TRUE, data |-> data]

\* An unlink that empties the whole directory
unlink_all(f, key) ==
    IF f[key].exists THEN Ok([k \in DOMAIN f |-> NoFile]) ELSE Raise(f)

\* cache_file.unlink(): raises FileNotFoundError when there is no such file.
unlink(f, key) ==
    IF f[key].exists THEN Ok([f EXCEPT ![key] = NoFile]) ELSE Raise(f)

\* What read() gives: the directory afterwards, what it returns, and whether
\* it raised.
ReadResult(f, ret) == [fs |-> f, ret |-> ret, raised |-> FALSE]

\* The except clause of read(): u is what cache_file.unlink() gave.
read_except(u) == [fs |-> u.val, ret |-> None, raised |-> ~u.ok]

\* read() from the test for the file on; content is what
\* self.serializer.loads(f.read()) gives.
read_file(f, key, content) ==
    IF ~f[key].exists THEN ReadResult(f, None)
    ELSE IF content.ok THEN ReadResult(f, content.val)
    ELSE read_except(unlink(f, key))

\* read() that leaves an entry it cannot decode in place
read_entry_keep_corrupted(w, f, key) ==
    IF f[key].exists /\ loads(w.serializer, f[key].data).ok
    THEN read_file(f, key, loads(w.serializer, f[key].data))
    ELSE ReadResult(f, None)

\* read() for the key it derived.
read_entry(w, f, key) == read_file(f, key, loads(w.serializer, f[key].data))

\* CacheWrapper.read(func, args, kwargs)
read(w, f, a) == read_entry(w, f, make_key(w.is_method, FuncName, a.args, a.kwargs))

\* What can go wrong in the file system during one write().
Faults == {"none", "open", "write"}

\* The except clause of write(): u is what cache_file.unlink() gave.  The
\* result of write(): the directory afterwards, whether it raised, and
\* whether the entry was stored.
write_except(u) == [fs |-> u.val, raised |-> ~u.ok, stored |-> FALSE]

\* write() from the opening of the file on; blob is what
\* self.serializer.dumps(content) gives.  open(mode="wb") creates or truncates
\* the file unless it fails; a failing f.write leaves a part of the blob in
\* the file.
write_file(f, key, blob, fault) ==
    IF fault = "open" THEN write_except(unlink(f, key))
    ELSE IF ~blob.ok THEN write_except(unlink([f EXCEPT ![key] = File(<<>>)], key))
    ELSE IF fault = "write"
    THEN write_except(unlink([f EXCEPT ![key] = File(SubSeq(blob.val, 1, 1))], key))
    ELSE [fs |-> [f EXCEPT ![key] = File(blob.val)], raised |-> FALSE,
          stored |-> TRUE]

\* CacheWrapper.write(content, func, args, kwargs)
write(w, f, content, a, fault) ==
    write_file(f, make_key(w.is_method, FuncName, a.args, a.kwargs),
               dumps(w.serializer, content), fault)

\* ---------------------------------------------------------- the decorator

\* The callables that can be wrapped, by their declared convention.
FuncKinds == {"function", "generator function", "coroutine function",
              "async generator function"}

iscoroutinefunction(func) == func = "coroutine function"
isasyncgenfunction(func) == func = "async generator function"
isgeneratorfunction(func) == func = "generator function"

\* CacheWrapper.__init__: the object, or the exception raised.  cache_dir <<>>
\* stands for None and namespace <<>> for None; another namespace is the list
\* namespace.split("."); serializer "None" is no serializer.  Path(None)
\* raises TypeError; mkdir raises OSError when the directory cannot be made.
CacheWrapper_init(cache_dir, namespace, is_method, serializer, mkdir_ok) ==
    IF cache_dir = <<>> THEN Raise("TypeError")
    ELSE IF ~mkdir_ok THEN Raise("OSError")
    ELSE Ok([cache_dir |-> cache_dir \o namespace,
             is_method |-> is_method,
             serializer |-> IF serializer = "None" THEN "PickleSerializer"
                            ELSE serializer])

\* A __call__ that binds the adapter of plain functions to every callable
CacheWrapper_call_plain(func) == "sync_wrapper"

\* CacheWrapper.__call__: the adapter bound to the wrapped callable.
CacheWrapper_call(func) ==
    IF iscoroutinefunction(func) THEN "async_wrapper"
    ELSE IF isasyncgenfunction(func) THEN "async_gen_wrapper"
    ELSE IF isgeneratorfunction(func) THEN "sync_gen_wrapper"
    ELSE "sync_wrapper"

NoObject == [cache_dir |-> <<>>, is_method |-> FALSE, serializer |-> "None"]

\* cache(fn, *, cache_dir, namespace, is_method, serializer): fn "None" is no
\* callable.  Without fn it returns functools.partial(cache, cache_dir=...,
\* namespace=..., is_method=...), given here as the keyword arguments a later
\* call of the partial passes to cache; with fn it returns the wrapped
\* callable, or raises.
cache(fn, cache_dir, namespace, is_method, serializer, mkdir_ok) ==
    IF fn = "None"
    THEN [res |-> "partial", error |-> "none", variant |-> "none",
          obj |-> NoObject,
          kw |-> [cache_dir |-> cache_dir, namespace |-> namespace,
                  is_method |-> is_method, serializer |-> "None"]]
    ELSE LET o == CacheWrapper_init(cache_dir, namespace, is_method, serializer,
                                    mkdir_ok)
             nokw == [cache_dir |-> <<>>, namespace |-> <<>>,
                      is_method |-> FALSE, serializer |-> "None"]
         IN  IF o.ok
             THEN [res |-> "wrapped", error |-> "none",
                   variant |-> CacheWrapper_call(fn), obj |-> o.val, kw |-> nokw]
             ELSE [res |-> "raised", error |-> o.val, variant |-> "none",
                   obj |-> NoObject, kw |-> nokw]

\* The three ways of using the decorator:
\*   bare    @cache
\*   param   @cache(cache_dir=..., namespace=..., is_method=..., serializer=...)
\*   direct  cache(fn, cache_dir=..., namespace=..., is_method=..., serializer=...)
Forms == {"bare", "param", "direct"}

decorate(form, fn, cache_dir, namespace, is_method, serializer, mkdir_ok) ==
    IF form = "bare" THEN cache(fn, <<>>, <<>>, FALSE, "None", mkdir_ok)
    ELSE IF form = "direct"
    THEN cache(fn, cache_dir, namespace, is_method, serializer, mkdir_ok)
    ELSE LET p == cache("None", cache_dir, namespace, is_method, serializer,
                        mkdir_ok).kw
         IN  cache(fn, p.cache_dir, p.namespace, p.is_method, p.serializer,
                   mkdir_ok)

Unwrapped ==
    [state |-> "unwrapped", error |-> "none", form |-> "none", func |-> "None",
     asked |-> "None", cache_dir |-> <<>>, is_method |-> FALSE,
     serializer |-> "None", variant |-> "none"]

CacheDirs == {<<>>, <<"tmp">>}
Namespaces == {<<>>, <<"a", "b">>}

\* ------------------------------------------------------------ the wrappers

Calls == 1..MaxCalls

\* What the underlying function does when it is invoked: it returns a value
\* or it raises.
Values == {None, IntObj("4"), Lambda}
Outcomes == {[k |-> "return", val |-> v] : v \in Values}
            \cup {[k |-> "raise", val |-> None]}

\* What the underlying generator does when it is asked for its next item: it
\* yields one, it is exhausted, or it raises.  Like the generators of the
\* tests (yield a + i) it yields the items of one series, in order; where the
\* series ends differs from run to run.
Series == <<"3", "4", "5", "6">>
Steps == {[k |-> "yield"], [k |-> "stop"], [k |-> "raise"]}

\* One invocation of the wrapped callable.
\*   pc       idle, created (a generator object that was not started),
\*            awaiting (the coroutine awaits the underlying function),
\*            yielded (the generator is suspended in its miss branch),
\*            replay (the generator is suspended in its hit branch), done
\*   end      how it ended: returned, raised (the underlying function's
\*            failure), cache_error (an exception of read or write), closed
\*   inv      how often it invoked the underlying function
\*   wrote    it called write(); stored: that write stored the entry
\*   content  the local list of the generator wrappers
\*   out      the items it has yielded to its caller
\*   hit      the stored sequence it replays; ishit: read gave a hit
\*   ret      the value it returned
\*   prior    history: the calls that had ended when it called read()
\*   found    history: what read() met: absent (no entry file), entry (a file
\*            it decoded) or corrupted (a file it could not decode)
NoCall ==
    [pc |-> "idle", end |-> "none", a |-> [args |-> <<>>, kwargs |-> <<>>],
     inv |-> 0, wrote |-> FALSE, stored |-> FALSE, content |-> <<>>,
     out |-> <<>>, hit |-> <<>>, ishit |-> FALSE, ret |-> None, prior |-> {},
     found |-> "none"]

\* The wrapper leaves with what write() did: it returns, unless write raised.
AfterWrite(c, wr, ret) ==
    [fs |-> wr.fs,
     c |-> [c EXCEPT !.pc = "done", !.wrote = TRUE, !.stored = wr.stored,
                     !.ret = ret,
                     !.end = IF wr.raised THEN "cache_error" ELSE "returned"]]

\* The underlying function or generator failed: the exception leaves the
\* wrapper.
Failed(f, c) == [fs |-> f, c |-> [c EXCEPT !.pc = "done", !.end = "raised"]]

\* The wrapper leaves with the exception of the underlying function after a
\* write() in a finally clause.
FailedAfterWrite(c, wr) ==
    [fs |-> wr.fs,
     c |-> [c EXCEPT !.pc = "done", !.wrote = TRUE, !.stored = wr.stored,
                     !.end = IF wr.raised THEN "cache_error" ELSE "raised"]]

\* The miss path of a function wrapper that stores in a finally clause
call_func_write_always(w, f, c, outcome, fault) ==
    IF outcome.k = "raise"
    THEN FailedAfterWrite(c, write(w, f, None, c.a, fault))
    ELSE AfterWrite(c, write(w, f, outcome.val, c.a, fault), outcome.val)

\* The miss path of sync_wrapper and async_wrapper, from the completion of the
\* underlying function: content = func(...); self.write(...); return content
call_func(w, f, c, outcome, fault) ==
    IF outcome.k = "raise" THEN Failed(f, c)
    ELSE AfterWrite(c, write(w, f, outcome.val, c.a, fault), outcome.val)

\* What an entry file is to read(): history only.
FoundAt(w, f, key) ==
    IF ~f[key].exists THEN "absent"
    ELSE IF loads(w.serializer, f[key].data).ok THEN "entry"
    ELSE "corrupted"

Found(w, f, a) == FoundAt(w, f, make_key(w.is_method, FuncName, a.args, a.kwargs))

\* What a lookup gives: what read() gave, whether it counts as a hit, and
\* the call with its history.
Looked(r, ishit, c) ==
    [fs |-> r.fs, raised |-> r.raised, ret |-> r.ret, ishit |-> ishit, c |-> c]

\* (hit := self.read(func, args, kwargs)) is not None
is_hit(r) == r.ret # None

\* The lookup every wrapper starts with; r is what read() gave.
looked_up(r, found, c) == Looked(r, is_hit(r), [c EXCEPT !.found = found])

\* The lookup with a test for truth
lookup_truthy(w, f, c) ==
    looked_up([ret |-> IF read(w, f, c.a).ret = ListObj(<<>>) THEN None
                       ELSE read(w, f, c.a).ret,
               fs |-> read(w, f, c.a).fs, raised |-> read(w, f, c.a).raised],
              Found(w, f, c.a), c)

\* if (hit := self.read(func, args, kwargs)) is not None
lookup(w, f, c) == looked_up(read(w, f, c.a), Found(w, f, c.a), c)

\* read() raised: the exception leaves the wrapper.
ReadRaised(r) == [fs |-> r.fs, c |-> [r.c EXCEPT !.pc = "done", !.end = "cache_error"]]

\* return hit
ReturnHit(r) ==
    [fs |-> r.fs, c |-> [r.c EXCEPT !.pc = "done", !.end = "returned",
                                    !.ishit = TRUE, !.ret = r.ret]]

\* sync_wrapper after its lookup r.
sync_after_lookup(w, r, outcome, fault) ==
    IF r.raised THEN ReadRaised(r)
    ELSE IF r.ishit THEN ReturnHit(r)
    ELSE call_func(w, r.fs, [r.c EXCEPT !.inv = @ + 1], outcome, fault)

\* CacheWrapper.sync_wrapper
sync_wrapper(w, f, c, outcome, fault) ==
    sync_after_lookup(w, lookup(w, f, c), outcome, fault)

\* async_wrapper that opens the entry file before it awaits the coroutine
async_after_lookup_open_first(r) ==
    IF r.raised THEN ReadRaised(r)
    ELSE IF r.ishit THEN ReturnHit(r)
    ELSE [fs |-> [r.fs EXCEPT ![TaskKey(r.c.a)] = File(<<>>)],
          c |-> [r.c EXCEPT !.pc = "awaiting", !.inv = @ + 1]]

\* async_wrapper that joins a call in flight with the same arguments instead
\* of invoking the function again
async_after_lookup_shared(r) ==
    IF r.raised THEN ReadRaised(r)
    ELSE IF r.ishit THEN ReturnHit(r)
    ELSE [fs |-> r.fs,
          c |-> [r.c EXCEPT !.pc = "awaiting",
                            !.inv = IF \E k \in Calls : /\ calls[k].pc = "awaiting"
                                                        /\ calls[k].a = r.c.a
                                    THEN @ ELSE @ + 1]]

\* async_wrapper after its lookup r, up to its await: on a miss the coroutine
\* func(*args, **kwargs) is created and awaited.
async_after_lookup(r) ==
    IF r.raised THEN ReadRaised(r)
    ELSE IF r.ishit THEN ReturnHit(r)
    ELSE [fs |-> r.fs, c |-> [r.c EXCEPT !.pc = "awaiting", !.inv = @ + 1]]

\* CacheWrapper.async_wrapper up to its await
async_wrapper(w, f, c) == async_after_lookup(lookup(w, f, c))

\* The hit branch of the generator wrappers: the next stored item, or the end.
replay(f, c) ==
    IF Len(c.out) < Len(c.hit)
    THEN [fs |-> f, c |-> [c EXCEPT !.pc = "replay",
                                    !.out = Append(@, c.hit[Len(c.out) + 1])]]
    ELSE [fs |-> f, c |-> [c EXCEPT !.pc = "done", !.end = "returned"]]

\* content.append(item); yield item
Yielded(f, c, item) ==
    [fs |-> f, c |-> [c EXCEPT !.pc = "yielded", !.content = Append(@, item),
                               !.out = Append(@, item)]]

\* The miss branch of a generator wrapper that stores after every item
pull_write_each(w, f, c, step, fault) ==
    IF step.k = "yield"
    THEN Yielded(write(w, f, ListObj(Append(c.content, Series[Len(c.content) + 1])),
                       c.a, fault).fs,
                 [c EXCEPT !.wrote = TRUE], Series[Len(c.content) + 1])
    ELSE IF step.k = "raise" THEN Failed(f, c)
    ELSE [fs |-> f, c |-> [c EXCEPT !.pc = "done", !.end = "returned"]]

\* The miss branch of the generator wrappers, one round of the loop over the
\* underlying generator: an item is appended and yielded; a failure
\* propagates; after exhaustion the list is written.
pull(w, f, c, step, fault) ==
    IF step.k = "yield" THEN Yielded(f, c, Series[Len(c.content) + 1])
    ELSE IF step.k = "raise" THEN Failed(f, c)
    ELSE AfterWrite(c, write(w, f, ListObj(c.content), c.a, fault), None)

\* A generator wrapper's first next() after its lookup r: on a miss the
\* underlying generator function is invoked.
gen_after_lookup(w, r, step, fault) ==
    IF r.raised THEN ReadRaised(r)
    ELSE IF r.ishit THEN replay(r.fs, [r.c EXCEPT !.ishit = TRUE, !.hit = r.ret.v])
    ELSE pull(w, r.fs, [r.c EXCEPT !.inv = @ + 1], step, fault)

\* CacheWrapper.sync_gen_wrapper and async_gen_wrapper, one next() of the
\* generator object.
gen_next(w, f, c, step, fault) ==
    IF c.pc = "created" THEN gen_after_lookup(w, lookup(w, f, c), step, fault)
    ELSE IF c.pc = "replay" THEN replay(f, c)
    ELSE pull(w, f, c, step, fault)

\* ------------------------------------- the threads that share a directory

MaxTasks == 2       \* threads that call read() and write() on one directory
MaxOps == 3         \* read() and write() calls of one run

Tasks == 1..MaxTasks

\* One thread of a program that uses the controller.
\*   op       read or write, the call it is in
\*   pc       idle, open (read: the file exists, it is about to open it),
\*            write (write: the file is open, it is about to write),
\*            unlink (it is in the except clause)
\*   linked   write: the file it has open is still the entry of its key
\*   quiet    history: no other thread was in a call during this call
NoTask ==
    [op |-> "none", pc |-> "idle", a |-> [args |-> <<>>, kwargs |-> <<>>],
     content |-> None, linked |-> FALSE, quiet |-> TRUE]

\* ------------------------------------------------------------- the actions

NoKeyCall ==
    [is_method |-> FALSE, func_name |-> <<>>, args |-> <<>>, kwargs |-> <<>>,
     key |-> <<>>, again |-> FALSE]

Established == wrapper.state = "established"

Ended == {j \in Calls : calls[j].pc = "done"}

\* Call slots are used in order.  Without overlap a call starts only when
\* every call before it has ended: one thread that consumes each generator
\* object before it makes the next call.
CanStart(i, overlap) ==
    /\ Established
    /\ calls[i].pc = "idle"
    /\ i > 1 => calls[i - 1].pc # "idle"
    /\ overlap \/ \A j \in Calls : calls[j].pc \in {"idle", "done"}

Begin(i, a) == [calls[i] EXCEPT !.a = a, !.prior = Ended]

\* Call i has made the step whose result is r.
Step(i, r) ==
    /\ fs' = r.fs
    /\ calls' = [calls EXCEPT ![i] = r.c]

\* The state of the decoration after one use of the decorator.
WrapperState(form, fn, serializer, r) ==
    [state |-> IF r.res = "wrapped" THEN "established" ELSE "error",
     error |-> r.error, form |-> form, func |-> fn, asked |-> serializer,
     cache_dir |-> r.obj.cache_dir, is_method |-> r.obj.is_method,
     serializer |-> r.obj.serializer, variant |-> r.variant]

Decorated(form, fn, cache_dir, namespace, is_method, serializer, mkdir_ok) ==
    WrapperState(form, fn, serializer,
                 decorate(form, fn, cache_dir, namespace, is_method, serializer,
                          mkdir_ok))

\* The decorator is applied to a callable.
Decorate(form, fn, cache_dir, namespace, is_method, serializer, mkdir_ok) ==
    /\ wrapper.state = "unwrapped"
    /\ form = "bare" =>
          cache_dir = <<>> /\ namespace = <<>> /\ ~is_method /\ serializer = "None"
    /\ wrapper' = Decorated(form, fn, cache_dir, namespace, is_method, serializer,
                            mkdir_ok)
    /\ UNCHANGED <<fs, calls, tampered, kcall, kfirst, tasks, log>>

\* wrapped(*args, **kwargs) of a plain function: the whole call.
SyncCall(i, a, outcome, fault, overlap) ==
    /\ CanStart(i, overlap)
    /\ wrapper.variant = "sync_wrapper"
    /\ Step(i, sync_wrapper(wrapper, fs, Begin(i, a), outcome, fault))
    /\ UNCHANGED <<wrapper, tampered, kcall, kfirst, tasks, log>>

\* await wrapped(*args, **kwargs) of a coroutine function, up to the await.
AsyncCall(i, a, overlap) ==
    /\ CanStart(i, overlap)
    /\ wrapper.variant = "async_wrapper"
    /\ Step(i, async_wrapper(wrapper, fs, Begin(i, a)))
    /\ UNCHANGED <<wrapper, tampered, kcall, kfirst, tasks, log>>

\* The awaited underlying coroutine completes.
AsyncResume(i, outcome, fault) ==
    /\ calls[i].pc = "awaiting"
    /\ Step(i, call_func(wrapper, fs, calls[i], outcome, fault))
    /\ UNCHANGED <<wrapper, tampered, kcall, kfirst, tasks, log>>

\* The task is cancelled at the await: CancelledError leaves the wrapper.
AsyncCancel(i) ==
    /\ calls[i].pc = "awaiting"
    /\ calls' = [calls EXCEPT ![i].pc = "done", ![i].end = "closed"]
    /\ UNCHANGED <<wrapper, fs, tampered, kcall, kfirst, tasks, log>>

\* wrapped(*args, **kwargs) of a generator or async generator function: the
\* generator object is created and nothing of its body runs.
GenCall(i, a, overlap) ==
    /\ CanStart(i, overlap)
    /\ wrapper.variant \in {"sync_gen_wrapper", "async_gen_wrapper"}
    /\ calls' = [calls EXCEPT ![i].pc = "created", ![i].a = a]
    /\ UNCHANGED <<wrapper, fs, tampered, kcall, kfirst, tasks, log>>

\* The consumer asks the generator object for its next item.
GenNext(i, step, fault) ==
    /\ calls[i].pc \in {"created", "yielded", "replay"}
    /\ step.k = "yield" => Len(calls[i].content) < MaxItems
    /\ Step(i, gen_next(wrapper, fs,
                         IF calls[i].pc = "created"
                         THEN [calls[i] EXCEPT !.prior = Ended] ELSE calls[i],
                         step, fault))
    /\ UNCHANGED <<wrapper, tampered, kcall, kfirst, tasks, log>>

\* The consumer abandons the generator object (close(), aclose(), garbage
\* collection, cancellation): GeneratorExit at the yield ends the body.
GenClose(i) ==
    /\ calls[i].pc \in {"created", "yielded", "replay"}
    /\ calls' = [calls EXCEPT ![i].pc = "done", ![i].end = "closed"]
    /\ UNCHANGED <<wrapper, fs, tampered, kcall, kfirst, tasks, log>>

\* The bytes an entry file may be replaced with: nothing, or the start of a
\* pickle cut in the middle of a base64 quantum.
Garbage == { <<>>, << <<"b64", "PROTO">>, <<"cut", "">> >> }

\* Something outside the library replaces the bytes of an entry file with
\* content that the serializer cannot decode.
Corrupt(key, g) ==
    /\ Established
    /\ fs[key].exists
    /\ ~loads(wrapper.serializer, g).ok
    /\ fs' = [fs EXCEPT ![key] = File(g)]
    /\ tampered' = tampered \cup {key}
    /\ UNCHANGED <<wrapper, calls, kcall, kfirst, tasks, log>>

\* The wrappers of the tests, @cache(cache_dir=tmpdir), around each kind of
\* callable, and the same with is_method=True; the cache directory is empty.
Init ==
    /\ wrapper \in { Decorated("param", fn, <<"tmp">>, <<>>, m, "None", TRUE) :
                       fn \in FuncKinds, m \in BOOLEAN }
    /\ fs = [k \in Keys |-> NoFile]
    /\ calls = [i \in Calls |-> NoCall]
    /\ tampered = {}
    /\ kcall = NoKeyCall
    /\ kfirst = <<>>
    /\ tasks = [p \in Tasks |-> NoTask]
    /\ log = <<>>

CallsNext(slots, overlap) ==
    \/ \E i \in slots, a \in ArgChoices, o \in Outcomes, fault \in Faults :
          SyncCall(i, a, o, fault, overlap)
    \/ \E i \in slots, a \in ArgChoices : AsyncCall(i, a, overlap)
    \/ \E i \in slots, o \in Outcomes, fault \in Faults : AsyncResume(i, o, fault)
    \/ \E i \in slots : AsyncCancel(i)
    \/ \E i \in slots, a \in ArgChoices : GenCall(i, a, overlap)
    \/ \E i \in slots, step \in Steps, fault \in Faults : GenNext(i, step, fault)
    \/ \E i \in slots : GenClose(i)

Next ==
    \/ CallsNext(Calls, FALSE)
    \/ \E key \in DOMAIN fs, g \in Garbage : Corrupt(key, g)

Spec == Init /\ [][Next]_vars

\* Calls that overlap: tasks of one event loop that await the wrapped
\* coroutine function or consume the wrapped async generator, and generator
\* objects consumed in alternation.  A task switch happens only where a
\* wrapper awaits or yields, that is between the actions.
NextOverlap == CallsNext(Calls, TRUE)

SpecOverlap == Init /\ [][NextOverlap]_vars

\* The cache directory outlives the process: the wrappers of the tests over
\* a directory in which an earlier run left an entry that does not decode.
InitStale ==
    /\ wrapper \in { Decorated("param", fn, <<"tmp">>, <<>>, m, "None", TRUE) :
                       fn \in FuncKinds, m \in BOOLEAN }
    /\ \E a \in ArgChoices, g \in Garbage :
          /\ fs = [k \in Keys |-> IF k = TaskKey(a) THEN File(g) ELSE NoFile]
          /\ tampered = {TaskKey(a)}
    /\ calls = [i \in Calls |-> NoCall]
    /\ kcall = NoKeyCall
    /\ kfirst = <<>>
    /\ tasks = [p \in Tasks |-> NoTask]
    /\ log = <<>>

SpecStale == InitStale /\ [][Next]_vars

\* The decorator in all its uses, followed by calls of what it returned.
InitDeco ==
    /\ wrapper = Unwrapped
    /\ fs = [k \in Keys |-> NoFile]
    /\ calls = [i \in Calls |-> NoCall]
    /\ tampered = {}
    /\ kcall = NoKeyCall
    /\ kfirst = <<>>
    /\ tasks = [p \in Tasks |-> NoTask]
    /\ log = <<>>

NextDeco ==
    \/ \E form \in Forms, fn \in FuncKinds, d \in CacheDirs, ns \in Namespaces,
          m \in BOOLEAN, s \in Serializers \cup {"None"}, ok \in BOOLEAN :
          Decorate(form, fn, d, ns, m, s, ok)
    \/ CallsNext(1..DecoCalls, FALSE)

SpecDeco == InitDeco /\ [][NextDeco]_vars

\* ---------------------------------------------------- make_key on its own

MaxKwargs == 2      \* keyword arguments of a make_key call

FuncNames == {<<"f", "n">>, <<"f">>}
KeyArgValues == {"i3", "i4", "s3_4", "sa=3"}
KwNames == {<<"a">>, <<"b">>, <<"a", "b">>}
KwValues == {"i3", "i4"}

SeqsUpTo(S, n) == UNION {[1..k -> S] : k \in 0..n}

\* The items of a dict, in insertion order: no key twice.
KwargsChoices ==
    { kw \in SeqsUpTo(KwNames \X KwValues, MaxKwargs) :
        \A i, j \in 1..Len(kw) : i # j => kw[i][1] # kw[j][1] }

Perms(n) == { p \in [1..n -> 1..n] : \A i, j \in 1..n : i # j => p[i] # p[j] }

\* One call of make_key, with what it returned.
KeyCall(is_method, func_name, args, kwargs, again) ==
    [is_method |-> is_method, func_name |-> func_name, args |-> args,
     kwargs |-> kwargs, key |-> make_key(is_method, func_name, args, kwargs),
     again |-> again]

\* make_key is called once more with the same arguments.
KeyAgain ==
    /\ ~kcall.again
    /\ kcall' = KeyCall(kcall.is_method, kcall.func_name, kcall.args,
                        kcall.kwargs, TRUE)
    /\ UNCHANGED <<wrapper, fs, calls, tampered, kfirst, tasks, log>>

\* make_key is called with the same keyword arguments passed in another order.
KeyReordered(p) ==
    /\ Len(kcall.kwargs) >= 2
    /\ p \in Perms(Len(kcall.kwargs))
    /\ kcall' = KeyCall(kcall.is_method, kcall.func_name, kcall.args,
                        [i \in 1..Len(kcall.kwargs) |-> kcall.kwargs[p[i]]], TRUE)
    /\ kcall' # kcall
    /\ UNCHANGED <<wrapper, fs, calls, tampered, kfirst, tasks, log>>

InitKey ==
    /\ wrapper = Unwrapped
    /\ fs = [k \in Keys |-> NoFile]
    /\ calls = [i \in Calls |-> NoCall]
    /\ tampered = {}
    /\ kcall \in { KeyCall(m, n, args, kw, FALSE) :
                     m \in BOOLEAN, n \in FuncNames,
                     args \in SeqsUpTo(KeyArgValues, MaxArgs), kw \in KwargsChoices }
    /\ kfirst = kcall
    /\ tasks = [p \in Tasks |-> NoTask]
    /\ log = <<>>

NextKey ==
    \/ KeyAgain
    \/ \E p \in UNION {Perms(n) : n \in 0..MaxKwargs} : KeyReordered(p)

SpecKey == InitKey /\ [][NextKey]_vars

\* ------------------------------------------------ two calls of make_key

\* The keyword arguments of the second call: at most one.
OtherKwargs == { kw \in KwargsChoices : Len(kw) <= 1 }

\* make_key is called for another call of the same function through the same
\* wrapper.
KeyOther(args, kwargs) ==
    /\ ~kcall.again
    /\ kcall' = KeyCall(kfirst.is_method, kfirst.func_name, args, kwargs, TRUE)
    /\ UNCHANGED <<wrapper, fs, calls, tampered, kfirst, tasks, log>>

InitKeyPair ==
    /\ wrapper = Unwrapped
    /\ fs = [k \in Keys |-> NoFile]
    /\ calls = [i \in Calls |-> NoCall]
    /\ tampered = {}
    /\ kcall \in { KeyCall(m, FuncName, args, kw, FALSE) :
                     m \in BOOLEAN,
                     args \in SeqsUpTo(KeyArgValues, MaxArgs), kw \in KwargsChoices }
    /\ kfirst = kcall
    /\ tasks = [p \in Tasks |-> NoTask]
    /\ log = <<>>

NextKeyPair ==
    \E args \in SeqsUpTo(KeyArgValues, MaxArgs), kw \in OtherKwargs :
        KeyOther(args, kw)

SpecKeyPair == InitKeyPair /\ [][NextKeyPair]_vars

\* ------------------------------ read() and write(), one file operation at a time

\* What the threads store, and the arguments of the calls they store it for.
Contents == {None, IntObj("4"), ListObj(<<"3", "4", "5">>), Lambda}
OpArgs == { a \in ArgChoices : a.kwargs = <<>> }

Active == { q \in Tasks : tasks[q].pc # "idle" }

\* A thread may enter a call.
CanEnter(p) ==
    /\ Established
    /\ tasks[p].pc = "idle"
    /\ Len(log) + Cardinality(Active) < MaxOps

\* Thread p enters a call and is then as rec says: the calls of the other
\* threads are no longer undisturbed.
Entered(p, rec) ==
    [q \in Tasks |-> IF q = p THEN rec
                     ELSE IF tasks[q].pc # "idle" THEN [tasks[q] EXCEPT !.quiet = FALSE]
                     ELSE tasks[q]]

\* Thread p leaves its call; the entry of key was unlinked or not: a file that
\* another thread has open for that key is then no longer the entry.
Left(p, key, unlinked) ==
    [q \in Tasks |-> IF q = p THEN NoTask
                     ELSE IF unlinked /\ tasks[q].pc # "idle" /\ TaskKey(tasks[q].a) = key
                     THEN [tasks[q] EXCEPT !.linked = FALSE]
                     ELSE tasks[q]]

\* A call that has returned or raised.
Returned(t, ret, ok, stored) ==
    [op |-> t.op, a |-> t.a, content |-> t.content, ret |-> ret, ok |-> ok,
     stored |-> stored, quiet |-> t.quiet]

\* f.write(blob) on a file opened with mode "wb": the bytes go to the start of
\* the file and what the file holds beyond them stays.
overwrite(data, blob) == blob \o SubSeq(data, Len(blob) + 1, Len(data))

\* cache_file.open(mode="r+b") on a file that exists: nothing is truncated
open_keep(file) == IF file.exists THEN file ELSE File(<<>>)

\* cache_file.open(mode="wb"): the file is created, or truncated to nothing.
open_wb(file) == File(<<>>)

\* The directory after the thread has written blob to the file it has open.
Written(f, key, linked, blob) ==
    IF linked THEN [f EXCEPT ![key] = File(overwrite(@.data, blob))] ELSE f

\* read(), line 39: key = self.make_key(...); cache_file.exists()
ReadExistsAt(p, a, key) ==
    /\ CanEnter(p)
    /\ IF fs[key].exists
       THEN /\ tasks' = Entered(p, [NoTask EXCEPT !.op = "read", !.pc = "open",
                                                  !.a = a, !.quiet = Active = {}])
            /\ log' = log
       ELSE /\ tasks' = Entered(p, NoTask)
            /\ log' = Append(log, Returned([NoTask EXCEPT !.op = "read", !.a = a,
                                                          !.quiet = Active = {}],
                                           None, TRUE, FALSE))
    /\ UNCHANGED <<wrapper, fs, calls, tampered, kcall, kfirst>>

ReadExists(p, a) == ReadExistsAt(p, a, TaskKey(a))

\* read(), lines 43-44: cache_file.open("rb") raises when the file is gone;
\* content is what self.serializer.loads(f.read()) gives.
ReadOpenAt(p, key, content) ==
    /\ tasks[p].op = "read" /\ tasks[p].pc = "open"
    /\ IF fs[key].exists /\ content.ok
       THEN /\ tasks' = Left(p, key, FALSE)
            /\ log' = Append(log, Returned(tasks[p], content.val, TRUE, FALSE))
       ELSE /\ tasks' = [tasks EXCEPT ![p].pc = "unlink"]
            /\ log' = log
    /\ UNCHANGED <<wrapper, fs, calls, tampered, kcall, kfirst>>

ReadOpen(p) ==
    ReadOpenAt(p, TaskKey(tasks[p].a),
               loads(wrapper.serializer, fs[TaskKey(tasks[p].a)].data))

\* read(), line 47, and write(), line 63: cache_file.unlink() in the except
\* clause; u is what it gives.  When it raises, the call raises.
UnlinkAt(p, key, u) ==
    /\ tasks[p].pc = "unlink"
    /\ fs' = u.val
    /\ tasks' = Left(p, key, u.ok)
    /\ log' = Append(log, Returned(tasks[p], None, u.ok, FALSE))
    /\ UNCHANGED <<wrapper, calls, tampered, kcall, kfirst>>

Unlink(p) == UnlinkAt(p, TaskKey(tasks[p].a), unlink(fs, TaskKey(tasks[p].a)))

\* write(), line 58: cache_file.open(mode="wb") creates the file or truncates
\* it, or fails.
WriteOpenAt(p, a, key, content, fault) ==
    /\ CanEnter(p)
    /\ fault \in {"none", "open"}
    /\ IF fault = "open"
       THEN /\ tasks' = Entered(p, [NoTask EXCEPT !.op = "write", !.pc = "unlink",
                                                  !.a = a, !.content = content,
                                                  !.quiet = Active = {}])
            /\ fs' = fs
       ELSE /\ tasks' = Entered(p, [NoTask EXCEPT !.op = "write", !.pc = "write",
                                                  !.a = a, !.content = content,
                                                  !.linked = TRUE,
                                                  !.quiet = Active = {}])
            /\ fs' = [fs EXCEPT ![key] = open_wb(@)]
    /\ UNCHANGED <<wrapper, calls, tampered, kcall, kfirst, log>>

WriteOpen(p, a, content, fault) == WriteOpenAt(p, a, TaskKey(a), content, fault)

\* write(), line 59: f.write(self.serializer.dumps(content)) and the end of
\* the with block; blob is what dumps gives.  A failing f.write leaves a part
\* of the blob in the file.
WriteDataAt(p, key, blob, fault) ==
    /\ tasks[p].op = "write" /\ tasks[p].pc = "write"
    /\ fault \in {"none", "write"}
    /\ IF ~blob.ok
       THEN /\ tasks' = [tasks EXCEPT ![p].pc = "unlink", ![p].linked = FALSE]
            /\ fs' = fs
            /\ log' = log
       ELSE IF fault = "write"
       THEN /\ tasks' = [tasks EXCEPT ![p].pc = "unlink", ![p].linked = FALSE]
            /\ fs' = Written(fs, key, tasks[p].linked, SubSeq(blob.val, 1, 1))
            /\ log' = log
       ELSE /\ tasks' = Left(p, key, FALSE)
            /\ fs' = Written(fs, key, tasks[p].linked, blob.val)
            /\ log' = Append(log, Returned(tasks[p], None, TRUE, TRUE))
    /\ UNCHANGED <<wrapper, calls, tampered, kcall, kfirst>>

WriteData(p, fault) ==
    WriteDataAt(p, TaskKey(tasks[p].a), dumps(wrapper.serializer, tasks[p].content),
                fault)

\* A wrapper as in the tests, and threads that call its read() and write().
InitOps ==
    /\ wrapper = Decorated("param", "function", <<"tmp">>, <<>>, FALSE, "None", TRUE)
    /\ fs = [k \in Keys |-> NoFile]
    /\ calls = [i \in Calls |-> NoCall]
    /\ tampered = {}
    /\ kcall = NoKeyCall
    /\ kfirst = <<>>
    /\ tasks = [p \in Tasks |-> NoTask]
    /\ log = <<>>

NextOps ==
    \/ \E p \in Tasks, a \in OpArgs : ReadExists(p, a)
    \/ \E p \in Tasks : ReadOpen(p)
    \/ \E p \in Tasks : Unlink(p)
    \/ \E p \in Tasks, a \in OpArgs, content \in Contents, fault \in Faults :
          WriteOpen(p, a, content, fault)
    \/ \E p \in Tasks, fault \in Faults : WriteData(p, fault)

SpecOps == InitOps /\ [][NextOps]_vars

\* -------------------------------------------------------------- the claims

KeyOf(i) == make_key(wrapper.is_method, FuncName, calls[i].a.args, calls[i].a.kwargs)

\* No call after call i has looked anything up.
Latest(i) == \A j \in Calls : j > i => calls[j].pc \in {"idle", "created"}

FunctionVariant == wrapper.variant \in {"sync_wrapper", "async_wrapper"}
GeneratorVariant == wrapper.variant \in {"sync_gen_wrapper", "async_gen_wrapper"}

\* Call j was made after call i had ended, with the same arguments.
Repeats(i, j) ==
    /\ i \in calls[j].prior
    /\ calls[j].a = calls[i].a
    /\ calls[j].pc = "done"

\* C1: starting from an empty cache directory that nothing else touches, two
\* successive calls of a wrapped function with identical arguments, of which
\* the first stored its result, invoke the underlying function at most once
\* in all, and the second call returns what the first returned.
C1_SecondCallIsHit ==
    \A i, j \in Calls :
        ( /\ FunctionVariant
          /\ tampered = {}
          /\ calls[i].prior = {} /\ calls[i].found = "absent"
          /\ Repeats(i, j)
          /\ calls[i].end = "returned" /\ calls[i].stored
          /\ calls[j].end = "returned" )
        => /\ calls[i].inv + calls[j].inv <= 1
           /\ calls[j].ret = calls[i].ret

\* C2: a call whose write() failed to store the entry still returns the
\* result to its caller (write raises nothing), and no entry file is left
\* for its key.
C2_FailedWriteIsSwallowed ==
    \A i \in Calls :
        (calls[i].wrote /\ ~calls[i].stored)
        => /\ calls[i].end = "returned"
           /\ Latest(i) => ~fs[KeyOf(i)].exists

\* C3: a call whose read() met an entry file it could not decode got absent
\* from it (no hit, no exception), and the file is gone when read returns:
\* unless that call went on to write the entry anew, no file exists for its
\* key.
C3_CorruptedEntryIsRemoved ==
    \A i \in Calls :
        calls[i].found = "corrupted"
        => /\ ~calls[i].ishit
           /\ calls[i].inv = 1
           /\ (Latest(i) /\ ~calls[i].wrote) => ~fs[KeyOf(i)].exists

C3_Witness ==
    \E i \in Calls :
        /\ calls[i].found = "corrupted"
        /\ calls[i].pc \in {"awaiting", "yielded"}
        /\ ~fs[KeyOf(i)].exists

\* C4: in every variant, a call in which the underlying function failed
\* ended with that failure, invoked the function once and called write()
\* never; where read() had found no entry that decodes, no entry exists for
\* its key afterwards.
C4_FailurePropagates ==
    \A i \in Calls :
        calls[i].end = "raised"
        => /\ calls[i].inv = 1
           /\ ~calls[i].wrote
           /\ ~calls[i].ishit
           /\ (Latest(i) /\ calls[i].found # "entry") => ~fs[KeyOf(i)].exists

C4_Witness ==
    \E i \in Calls :
        /\ calls[i].end = "raised"
        /\ Len(calls[i].out) >= 1
        /\ \E j \in Calls : calls[j].end = "raised" /\ calls[j].found = "corrupted"

\* C5: a generator wrapper calls write() only when it ends after the
\* underlying generator is exhausted; a generator object that took the miss
\* branch and was abandoned before that never called write(), and no entry
\* exists for its key afterwards.
C5_AbandonedGeneratorStoresNothing ==
    \A i \in Calls :
        GeneratorVariant
        => /\ calls[i].wrote => calls[i].end \in {"returned", "cache_error"}
           /\ (calls[i].end = "closed" /\ ~calls[i].ishit)
              => /\ ~calls[i].wrote
                 /\ (Latest(i) /\ calls[i].found \in {"absent", "corrupted"})
                    => ~fs[KeyOf(i)].exists

C5_Witness ==
    \E i \in Calls :
        /\ GeneratorVariant
        /\ calls[i].end = "closed"
        /\ calls[i].inv = 1
        /\ Len(calls[i].out) = MaxItems

\* The stored sequence of the entry of call i's key, when it decodes.
StoredItems(i) == loads(wrapper.serializer, fs[KeyOf(i)].data)

\* C6: a generator wrapper that took the miss branch and was consumed to the
\* end has forwarded the items of the underlying generator in the order
\* produced and, when the store succeeded, has stored exactly that sequence;
\* every later call with the same arguments, consumed to the end, yields
\* the same items in the same order, the empty sequence included, without
\* invoking the underlying generator function.
C6_GeneratorReplay ==
    \A i \in Calls :
        ( /\ GeneratorVariant
          /\ tampered = {}
          /\ calls[i].end = "returned" /\ ~calls[i].ishit /\ calls[i].stored )
        => /\ calls[i].out = SubSeq(Series, 1, Len(calls[i].out))
           /\ fs[KeyOf(i)].exists
           /\ StoredItems(i) = Ok(ListObj(calls[i].out))
           /\ \A j \in Calls :
                (Repeats(i, j) /\ calls[j].end = "returned")
                => /\ calls[j].ishit
                   /\ calls[j].inv = 0
                   /\ calls[j].out = calls[i].out

C6_Witness ==
    \E i, j \in Calls :
        /\ GeneratorVariant
        /\ tampered = {}
        /\ calls[i].end = "returned" /\ ~calls[i].ishit /\ calls[i].stored
        /\ Repeats(i, j) /\ calls[j].end = "returned"
        /\ calls[j].out = <<>>

\* C7: with is_method set, a call that follows a call which stored its
\* result, with another receiver and the same remaining arguments, maps to
\* the same key, is a hit and does not invoke the method.
C7_ReceiverIgnored ==
    \A i, j \in Calls :
        ( /\ wrapper.is_method
          /\ tampered = {}
          /\ i \in calls[j].prior /\ calls[j].pc = "done"
          /\ calls[i].a.args # <<>> /\ calls[j].a.args # <<>>
          /\ Head(calls[i].a.args) # Head(calls[j].a.args)
          /\ Tail(calls[i].a.args) = Tail(calls[j].a.args)
          /\ calls[i].a.kwargs = calls[j].a.kwargs
          /\ calls[i].end = "returned" /\ calls[i].stored
          /\ calls[j].end = "returned" )
        => /\ KeyOf(i) = KeyOf(j)
           /\ calls[j].ishit
           /\ calls[j].inv = 0

\* C8: the decorator applied bare establishes the wrapping, in a directory
\* the library chooses.
C8_BareDecoratorWraps ==
    wrapper.form = "bare"
    => wrapper.state = "established" /\ wrapper.cache_dir # <<>>

\* C9: in a wrapping made by the parameterized form with a serializer
\* override, every entry file is the encoding of that serializer.
C9_OverrideEncodesEntries ==
    (wrapper.state = "established" /\ wrapper.form = "param"
       /\ wrapper.asked # "None")
    => \A key \in DOMAIN fs :
          fs[key].exists => loads(wrapper.asked, fs[key].data).ok

\* C10: make_key called again with the same function name, the same
\* positional arguments and the same keyword pairs, in whatever order the
\* keyword arguments are passed, returns the key it returned first.
C10_KeyIgnoresKeywordOrder ==
    ( /\ kcall.is_method = kfirst.is_method
      /\ kcall.func_name = kfirst.func_name
      /\ kcall.args = kfirst.args
      /\ {kcall.kwargs[i] : i \in 1..Len(kcall.kwargs)}
           = {kfirst.kwargs[i] : i \in 1..Len(kfirst.kwargs)} )
    => kcall.key = kfirst.key

C10_Witness ==
    /\ kcall.again
    /\ Len(kcall.kwargs) = MaxKwargs
    /\ kcall.kwargs # kfirst.kwargs
    /\ kcall.kwargs # sorted(kcall.kwargs)
    /\ kcall.args # <<>>
    /\ kcall.key = kfirst.key

\* The text renderings of the arguments of a make_key call that count for the
\* key: of the positional arguments in order, and of the keyword arguments
\* by name.
Rendered(kc) ==
    [pos |-> [i \in 1..Len(key_args(kc.is_method, kc.args)) |->
                 str(key_args(kc.is_method, kc.args)[i])],
     kw |-> { <<kc.kwargs[i][1], str(kc.kwargs[i][2])>> : i \in 1..Len(kc.kwargs) }]

\* C11: two calls of a function of the same name whose arguments differ in
\* number, in position kind (positional or keyword) or in the text rendering
\* of at least one argument map to different keys.
C11_DistinctCallsDistinctKeys ==
    ( /\ kcall.func_name = kfirst.func_name
      /\ kcall.is_method = kfirst.is_method
      /\ Rendered(kcall) # Rendered(kfirst) )
    => kcall.key # kfirst.key

\* C12: a read() that follows a write() which stored content for the same
\* key, each undisturbed by other threads, returns that content, whatever
\* the entry held before: nothing, the same content or other content.
C12_ReadReturnsLastWritten ==
    \A n \in 2..Len(log) :
        ( /\ log[n].op = "read" /\ log[n].quiet
          /\ log[n - 1].op = "write" /\ log[n - 1].quiet /\ log[n - 1].stored
          /\ log[n].a = log[n - 1].a )
        => /\ log[n].ok
           /\ log[n].ret = log[n - 1].content

C12_Witness ==
    /\ Len(log) = 3
    /\ \A n \in 1..3 : log[n].quiet /\ log[n].a = log[1].a
    /\ log[1].op = "write" /\ log[1].stored /\ log[1].content = ListObj(<<"3", "4", "5">>)
    /\ log[2].op = "write" /\ log[2].stored /\ log[2].content = IntObj("4")
    /\ log[3].op = "read" /\ log[3].ret = IntObj("4")

\* loads(dumps(x)) = x for PickleSerializer, where dumps encodes x.
RoundTrip(x) ==
    PickleSerializer_dumps(x).ok
    => PickleSerializer_loads(PickleSerializer_dumps(x).val) = Ok(x)

\* C13: the default serializer decodes what it encoded to an equal value:
\* for every content a thread writes or has written through a wrapper with
\* the default serializer, loads(dumps(content)) = content, and a stored
\* write has encoded its content.
C13_PickleRoundTrip ==
    wrapper.serializer = "PickleSerializer"
    => /\ \A p \in Tasks : tasks[p].op = "write" => RoundTrip(tasks[p].content)
       /\ \A n \in 1..Len(log) :
            log[n].op = "write"
            => /\ RoundTrip(log[n].content)
               /\ log[n].stored => PickleSerializer_dumps(log[n].content).ok

C13_Witness ==
    /\ wrapper.serializer = "PickleSerializer"
    /\ \E n \in 1..Len(log) :
         /\ log[n].op = "write" /\ log[n].stored
         /\ log[n].content = ListObj(<<"3", "4", "5">>)
    /\ \E n \in 1..Len(log) :
         /\ log[n].op = "read" /\ log[n].ret = ListObj(<<"3", "4", "5">>)

\* C15: no read() and no write() raises, however the file operations of the
\* threads that share the directory interleave.
C15_CacheLayerNeverRaises ==
    \A n \in 1..Len(log) : log[n].ok

C14_SelfHealing ==
    \A i, j \in Calls :
        ( /\ calls[i].found = "corrupted"
          /\ calls[i].end = "returned" /\ calls[i].stored
          /\ Repeats(i, j)
          /\ calls[j].found = "entry" /\ calls[j].end = "returned" )
        => /\ calls[i].inv = 1
           /\ calls[j].ishit
           /\ calls[j].inv = 0
           /\ calls[j].ret = calls[i].ret
           /\ calls[j].out = calls[i].out

AsyncVariant == wrapper.variant \in {"async_wrapper", "async_gen_wrapper"}

\* C17: among the tasks of one event loop that call an asynchronous wrapper,
\* wherever a task is suspended every entry file is a complete encoding, and
\* no read() ever met an entry it could not decode, so none deleted an entry
\* that another task was writing.
C17_NoPartialEntryObserved ==
    AsyncVariant
    => /\ \A key \in DOMAIN fs :
             fs[key].exists => loads(wrapper.serializer, fs[key].data).ok
       /\ \A i \in Calls : calls[i].found # "corrupted"

C17_Witness ==
    \E i, j \in Calls :
        /\ AsyncVariant
        /\ i # j
        /\ calls[i].a = calls[j].a
        /\ calls[i].pc \in {"awaiting", "yielded"}
        /\ i \notin calls[j].prior
        /\ calls[j].end = "returned" /\ calls[j].stored
        /\ calls[i].found = "absent" /\ calls[j].found = "absent"
        /\ fs[KeyOf(j)].exists

\* Calls i and j have the same arguments, each did its lookup before the
\* other one ended, and no call that had ended before stored their entry.
InFlightTogether(i, j) ==
    /\ i # j
    /\ calls[i].a = calls[j].a
    /\ calls[i].found # "none" /\ calls[j].found # "none"
    /\ i \notin calls[j].prior /\ j \notin calls[i].prior
    /\ \A k \in calls[i].prior \cup calls[j].prior :
          ~(calls[k].stored /\ KeyOf(k) = KeyOf(i))

\* C18: of two calls with identical arguments that are in flight together,
\* neither is a hit: each invokes the underlying function once, forwards the
\* items of its own run of the generator, and calls write() when it returns.
C18_NoInFlightDeduplication ==
    \A i, j \in Calls :
        InFlightTogether(i, j)
        => /\ ~calls[i].ishit
           /\ calls[i].inv = 1
           /\ calls[i].out = calls[i].content
           /\ calls[i].end = "returned" => calls[i].wrote

C18_Witness ==
    \E i, j \in Calls :
        /\ InFlightTogether(i, j)
        /\ calls[i].end = "returned" /\ calls[j].end = "returned"
        /\ calls[i].stored /\ calls[j].stored
        /\ calls[i].inv = 1 /\ calls[j].inv = 1

\* The key of call i after the step.
KeyOfNext(i) ==
    make_key(wrapper.is_method, FuncName, calls'[i].a.args, calls'[i].a.kwargs)

\* C19: in every step, an entry file changes only if it is the entry of the
\* key of the call that takes the step (or is replaced from outside); a
\* step of a call that is a hit leaves the whole directory as it is; a call
\* whose lookup finds no entry file and that does not go on to write in that
\* step creates no file; and the creation of a generator object changes no
\* file, looks nothing up, invokes nothing and writes nothing.
C19_Frame ==
    [][ /\ \A key \in DOMAIN fs :
              fs'[key] # fs[key]
              => \/ calls' = calls /\ key \in tampered'
                 \/ \E i \in Calls : calls'[i] # calls[i] /\ KeyOfNext(i) = key
        /\ \A i \in Calls :
              /\ (calls'[i] # calls[i] /\ calls'[i].ishit) => fs' = fs
              /\ ( /\ calls[i].found = "none" /\ calls'[i].found = "absent"
                   /\ ~calls'[i].wrote )
                 => fs' = fs
              /\ (calls[i].pc = "idle" /\ calls'[i].pc = "created")
                 => /\ fs' = fs
                    /\ calls'[i].found = "none"
                    /\ calls'[i].inv = 0
                    /\ ~calls'[i].wrote
      ]_vars

C19_Witness ==
    \E i, j \in Calls :
        /\ KeyOf(i) # KeyOf(j)
        /\ i \in calls[j].prior
        /\ calls[i].stored /\ calls[j].wrote
        /\ calls[j].end = "returned"
        /\ fs[KeyOf(i)].exists
        /\ StoredItems(i) = Ok(IF GeneratorVariant THEN ListObj(calls[i].out)
                               ELSE calls[i].ret)

\* The states a call can be in under each adapter.
AdapterStates(variant) ==
    CASE variant = "sync_wrapper" -> {"idle", "done"}
      [] variant = "async_wrapper" -> {"idle", "awaiting", "done"}
      [] variant \in {"sync_gen_wrapper", "async_gen_wrapper"}
           -> {"idle", "created", "yielded", "replay", "done"}
      [] OTHER -> {"idle"}

\* C20: an established wrapping has exactly the adapter of the declared
\* convention of its callable (coroutine function, async generator function,
\* generator function, else plain function), every invocation runs under
\* that adapter, and no step changes the wrapping once it is established.
C20_ClassifiedOnce ==
    /\ [](wrapper.state = "established"
          => /\ wrapper.func = "coroutine function"
                  => wrapper.variant = "async_wrapper"
             /\ wrapper.func = "async generator function"
                  => wrapper.variant = "async_gen_wrapper"
             /\ wrapper.func = "generator function"
                  => wrapper.variant = "sync_gen_wrapper"
             /\ wrapper.func = "function" => wrapper.variant = "sync_wrapper"
             /\ \A i \in Calls :
                  /\ calls[i].pc \in AdapterStates(wrapper.variant)
                  /\ FunctionVariant => calls[i].out = <<>>
                  /\ GeneratorVariant => calls[i].ret = None)
    /\ [][wrapper.state = "established" => wrapper' = wrapper]_vars

C20_Witness ==
    /\ wrapper.state = "established"
    /\ wrapper.func = "async generator function"
    /\ wrapper.variant = "async_gen_wrapper"
    /\ \E i \in Calls : calls[i].pc = "yielded" /\ Len(calls[i].out) = MaxItems

====
